---- MODULE Spec2Model ----
(***************************************************************************)
(* A model of the NLP search backend (src/main.py): the query interpreter  *)
(* (parse_query_with_nlp, parse_query_fallback), the clause builders and   *)
(* the backend selection of search_products, and the rescorer              *)
(* apply_nlp_scoring.                                                      *)
(*                                                                         *)
(* Conventions.                                                            *)
(*  - Text is a TLA+ string; "x in y" of Python is Contains(x, y).         *)
(*  - An optional value (None or a value) is a sequence of length 0 or 1.  *)
(*  - A Python dict is an ordered map: a sequence of <<key, value>> pairs  *)
(*    in insertion order.                                                  *)
(*  - Confidence scores are integers in tenths (1.0 is 10), clause boosts  *)
(*    in hundredths (5.0 is 500), ranking scores in units of 1/ScoreUnit.  *)
(*    Floating-point arithmetic is modelled by exact arithmetic.           *)
(***************************************************************************)
EXTENDS Integers, Sequences, FiniteSets, TLC

VARIABLES
    nlp,           \* whether the annotator was loaded (line 15)
    es_client,     \* the rich-backend handle: "None" or "AsyncElasticsearch"
    mongo_client,  \* the simple-backend handle: "None" or "AsyncIOMotorClient"
    pc,            \* where the process, or the request being served, stands
    query,         \* request.query
    doc,           \* the annotator's output for the query
    filters,       \* the Filter Set of the request
    es_query,      \* the rich-backend request
    mongo_query,   \* the simple-backend $match
    calls,         \* the backend calls of the request, in order, with their outcome
    hits,          \* the documents the last backend call found: the hits of the
                   \* rich backend, the documents that passed $match
    response       \* what the caller receives: [status, products]

vars == <<nlp, es_client, mongo_client, pc, query, doc, filters, es_query,
          mongo_query, calls, hits, response>>

(***************************************************************************)
(* Optional values and ordered maps                                        *)
(***************************************************************************)
None == <<>>

Some(x) == <<x>>

\* A list comprehension: the sequence f with its elements computed.
List(f) == f \o <<>>

\* Python truthiness of an optional integer: None and 0 are falsy.
TruthyInt(o) == o # None /\ o[1] # 0

\* Python truthiness of an optional string: None and "" are falsy.
TruthyStr(o) == o # None /\ o[1] # ""

\* d.get(k, default) on an ordered map.
MapHas(d, k) == \E i \in 1..Len(d) : d[i][1] = k

MapGet(d, k, default) ==
    IF MapHas(d, k) THEN d[CHOOSE i \in 1..Len(d) : d[i][1] = k][2] ELSE default

\* d[k] = d.get(k, 0) + v : a new key is appended, an old one keeps its place.
MapAdd(d, k, v) ==
    IF MapHas(d, k)
    THEN List([i \in 1..Len(d) |-> IF d[i][1] = k THEN <<k, d[i][2] + v>> ELSE d[i]])
    ELSE Append(d, <<k, v>>)

\* d[k] = v
MapPut(d, k, v) ==
    IF MapHas(d, k)
    THEN List([i \in 1..Len(d) |-> IF d[i][1] = k THEN <<k, v>> ELSE d[i]])
    ELSE Append(d, <<k, v>>)

\* The last key with the largest value.
MaxKeyLast(d) ==
    d[CHOOSE i \in 1..Len(d) :
        /\ \A j \in 1..Len(d) : d[j][2] <= d[i][2]
        /\ \A j \in (i + 1)..Len(d) : d[j][2] < d[i][2]][1]

\* max(d.items(), key=lambda x: x[1])[0] : the first key with the largest value.
MaxKey(d) ==
    d[CHOOSE i \in 1..Len(d) :
        /\ \A j \in 1..Len(d) : d[j][2] <= d[i][2]
        /\ \A j \in 1..(i - 1) : d[j][2] < d[i][2]][1]

(***************************************************************************)
(* Text                                                                    *)
(***************************************************************************)
CharAt(s, i) == SubSeq(s, i, i)

\* sub in s
Contains(sub, s) ==
    \E i \in 1..(Len(s) - Len(sub) + 1) : SubSeq(s, i, i + Len(sub) - 1) = sub

UpperChars == "ABCDEFGHIJKLMNOPQRSTUVWXYZ"

LowerChars == "abcdefghijklmnopqrstuvwxyz"

LowerChar(c) ==
    IF \E i \in 1..Len(UpperChars) : CharAt(UpperChars, i) = c
    THEN CharAt(LowerChars, CHOOSE i \in 1..Len(UpperChars) : CharAt(UpperChars, i) = c)
    ELSE c

RECURSIVE Lower(_)
\* str.lower()
Lower(s) ==
    IF Len(s) = 0 THEN ""
    ELSE IF Len(s) = 1 THEN LowerChar(s)
    ELSE Lower(SubSeq(s, 1, Len(s) \div 2)) \o Lower(SubSeq(s, Len(s) \div 2 + 1, Len(s)))

RECURSIVE JoinWords(_)
\* " ".join(words)
JoinWords(words) ==
    IF Len(words) = 0 THEN ""
    ELSE IF Len(words) = 1 THEN words[1]
    ELSE words[1] \o " " \o JoinWords(Tail(words))

IsSpace(c) == c = " "

Digits == "0123456789"

IsDigit(c) == \E d \in 1..Len(Digits) : CharAt(Digits, d) = c

DigitVal(c) == (CHOOSE d \in 1..Len(Digits) : CharAt(Digits, d) = c) - 1

RECURSIVE DigitsValue(_, _)
DigitsValue(s, acc) ==
    IF s = "" THEN acc
    ELSE DigitsValue(SubSeq(s, 2, Len(s)), acc * Len(Digits) + DigitVal(CharAt(s, 1)))

AllDigits(s) == s # "" /\ \A i \in 1..Len(s) : IsDigit(CharAt(s, i))

\* int(text): a value for a run of decimal digits, ValueError (None) otherwise.
PyInt(text) == IF AllDigits(text) THEN Some(DigitsValue(text, 0)) ELSE None

RECURSIVE SpanEnd(_, _, _)
\* The index after the longest run of characters of s from i on that satisfy
\* the class (digit or whitespace): the greedy \d+ and \s+ of the patterns.
SpanEnd(s, i, digit) ==
    IF i <= Len(s) /\ (IF digit THEN IsDigit(CharAt(s, i)) ELSE IsSpace(CharAt(s, i)))
    THEN SpanEnd(s, i + 1, digit)
    ELSE i

(***************************************************************************)
(* Regular expressions (the fragment of Python's re the patterns use).     *)
(* A pattern is a sequence of elements:                                    *)
(*   <<"lit", w>>   the literal word w                                     *)
(*   <<"ws1">>      \s+        <<"ws0">>   \s*                             *)
(*   <<"num">>      (\d+), the captured group                              *)
(*   <<"text", t>>  the text t interpolated into the pattern unescaped:    *)
(*                  "." matches any character, "$" only the end of the     *)
(*                  text, "(" opens a group; every other character of the  *)
(*                  model's alphabet (letters, digits, ",") is literal.    *)
(***************************************************************************)
\* re.compile fails on an interpolated text with an unbalanced parenthesis.
RegexCompiles(pat) ==
    \A k \in 1..Len(pat) :
        pat[k][1] = "text" =>
            /\ ~Contains("(", pat[k][2])
            /\ ~Contains(")", pat[k][2])

RECURSIVE MatchText(_, _, _)
\* The index after a match of the interpolated text t at s[i..], 0 if none.
MatchText(t, s, i) ==
    IF t = "" THEN i
    ELSE LET c == CharAt(t, 1)
             rest == SubSeq(t, 2, Len(t))
         IN  IF c = "$"
             THEN (IF i = Len(s) + 1 THEN MatchText(rest, s, i) ELSE 0)
             ELSE IF i > Len(s) THEN 0
             ELSE IF c = "." \/ CharAt(s, i) = c THEN MatchText(rest, s, i + 1)
             ELSE 0

RECURSIVE MatchFrom(_, _, _, _, _)
\* Matches pat[k..] at s[i..]; the result is [hit, group].
MatchFrom(pat, k, s, i, group) ==
    IF k > Len(pat) THEN [hit |-> TRUE, group |-> group]
    ELSE LET e == pat[k]
             miss == [hit |-> FALSE, group |-> ""]
         IN  CASE e[1] = "lit" ->
                    IF i + Len(e[2]) - 1 <= Len(s) /\ SubSeq(s, i, i + Len(e[2]) - 1) = e[2]
                    THEN MatchFrom(pat, k + 1, s, i + Len(e[2]), group)
                    ELSE miss
               [] e[1] = "ws1" ->
                    IF SpanEnd(s, i, FALSE) > i
                    THEN MatchFrom(pat, k + 1, s, SpanEnd(s, i, FALSE), group)
                    ELSE miss
               [] e[1] = "ws0" -> MatchFrom(pat, k + 1, s, SpanEnd(s, i, FALSE), group)
               [] e[1] = "num" ->
                    IF SpanEnd(s, i, TRUE) > i
                    THEN MatchFrom(pat, k + 1, s, SpanEnd(s, i, TRUE),
                                   SubSeq(s, i, SpanEnd(s, i, TRUE) - 1))
                    ELSE miss
               [] e[1] = "text" ->
                    IF MatchText(e[2], s, i) > 0
                    THEN MatchFrom(pat, k + 1, s, MatchText(e[2], s, i), group)
                    ELSE miss

\* re.search(pat, s) for a pattern that compiles: the leftmost match.
ReSearch(pat, s) ==
    IF \E i \in 1..(Len(s) + 1) : MatchFrom(pat, 1, s, i, "").hit
    THEN MatchFrom(pat, 1, s,
                   CHOOSE i \in 1..(Len(s) + 1) :
                       /\ MatchFrom(pat, 1, s, i, "").hit
                       /\ \A j \in 1..(i - 1) : ~MatchFrom(pat, 1, s, j, "").hit,
                   "")
    ELSE [hit |-> FALSE, group |-> ""]

\* The index of the first pattern of the list that matches s, 0 if none.
FirstMatch(pats, s) ==
    IF \E k \in 1..Len(pats) : ReSearch(pats[k], s).hit
    THEN CHOOSE k \in 1..Len(pats) :
            /\ ReSearch(pats[k], s).hit
            /\ \A j \in 1..(k - 1) : ~ReSearch(pats[j], s).hit
    ELSE 0

(***************************************************************************)
(* Attribute dictionaries: ordered lists of <<canonical value, synonyms>>. *)
(***************************************************************************)
\* parse_query_with_nlp: brand_entities
brand_entities ==
    << <<"nike", <<"nike", "air jordan", "jordan brand", "swoosh">>>>,
       <<"adidas", <<"adidas", "three stripes", "trefoil", "adi">>>>,
       <<"puma", <<"puma", "cat", "fuma">>>>,
       <<"reebok", <<"reebok", "rbk">>>>,
       <<"converse", <<"converse", "chuck taylor", "all star", "chuck">>>>,
       <<"vans", <<"vans", "off the wall">>>>,
       <<"new balance", <<"new balance", "nb", "newbalance">>>>,
       <<"mizuno", <<"mizuno">>>>,
       <<"asics", <<"asics", "tiger">>>>,
       <<"under armour", <<"under armour", "ua", "underarmour">>>> >>

\* parse_query_with_nlp: color_entities
color_entities ==
    << <<"black", <<"black", "ebony", "charcoal", "dark", "jet black">>>>,
       <<"white", <<"white", "ivory", "cream", "off-white", "snow", "pearl">>>>,
       <<"red", <<"red", "crimson", "burgundy", "scarlet", "cherry", "rose red">>>>,
       <<"blue", <<"blue", "navy", "cobalt", "azure", "royal blue", "sky blue">>>>,
       <<"green", <<"green", "emerald", "olive", "forest", "lime">>>>,
       <<"yellow", <<"yellow", "gold", "golden", "amber", "sunshine">>>>,
       <<"pink", <<"pink", "rose", "magenta", "fuchsia", "blush">>>>,
       <<"purple", <<"purple", "violet", "lavender", "plum", "indigo">>>>,
       <<"brown", <<"brown", "tan", "beige", "khaki", "chocolate", "camel">>>>,
       <<"grey", <<"grey", "gray", "silver", "slate", "charcoal gray">>>>,
       <<"orange", <<"orange", "coral", "peach", "burnt orange">>>> >>

\* parse_query_with_nlp: category_entities
category_entities ==
    << <<"sneakers", <<"sneakers", "trainers", "athletic shoes", "sports shoes", "running shoes", "runners", "kicks">>>>,
       <<"flats", <<"flats", "ballet flats", "loafers", "slip-ons">>>>,
       <<"boots", <<"boots", "ankle boots", "combat boots", "winter boots", "hiking boots">>>>,
       <<"sandals", <<"sandals", "flip flops", "slippers", "slides">>>>,
       <<"heels", <<"heels", "high heels", "stilettos", "pumps", "wedges">>>>,
       <<"casual shoes", <<"casual", "everyday shoes", "walking shoes">>>>,
       <<"formal shoes", <<"formal", "dress shoes", "office shoes", "oxfords">>>> >>

\* parse_query_with_nlp: gender_entities
gender_entities ==
    << <<"women", <<"women", "female", "girls", "ladies", "womens", "woman">>>>,
       <<"men", <<"men", "male", "boys", "mens", "guys", "man">>>>,
       <<"unisex", <<"unisex", "both", "all", "universal">>>> >>

\* parse_query_fallback: category_synonyms
category_synonyms ==
    << <<"sneakers", <<"sneakers", "trainers", "athletic shoes", "sports shoes", "running shoes">>>>,
       <<"flats", <<"flats", "ballet flats", "loafers">>>>,
       <<"boots", <<"boots", "ankle boots", "combat boots", "winter boots">>>>,
       <<"sandals", <<"sandals", "flip flops", "slippers">>>>,
       <<"heels", <<"heels", "high heels", "stilettos", "pumps">>>>,
       <<"casual shoes", <<"casual", "everyday shoes">>>>,
       <<"formal shoes", <<"formal", "dress shoes", "office shoes">>>> >>

\* parse_query_fallback: brand_synonyms
brand_synonyms ==
    << <<"nike", <<"nike", "air jordan", "jordan">>>>,
       <<"adidas", <<"adidas", "three stripes">>>>,
       <<"puma", <<"puma">>>>,
       <<"reebok", <<"reebok">>>>,
       <<"converse", <<"converse", "chuck taylor", "all star">>>>,
       <<"vans", <<"vans">>>>,
       <<"new balance", <<"new balance", "nb">>>>,
       <<"mizuno", <<"mizuno">>>>,
       <<"asics", <<"asics">>>>,
       <<"under armour", <<"under armour", "ua">>>> >>

\* parse_query_fallback: color_synonyms
color_synonyms ==
    << <<"red", <<"red", "crimson", "burgundy", "scarlet">>>>,
       <<"blue", <<"blue", "navy", "cobalt", "azure">>>>,
       <<"black", <<"black", "ebony", "charcoal">>>>,
       <<"white", <<"white", "ivory", "cream", "off-white">>>>,
       <<"green", <<"green", "emerald", "olive">>>>,
       <<"yellow", <<"yellow", "gold", "golden">>>>,
       <<"pink", <<"pink", "rose", "magenta">>>>,
       <<"purple", <<"purple", "violet", "lavender">>>>,
       <<"brown", <<"brown", "tan", "beige", "khaki">>>>,
       <<"grey", <<"grey", "gray", "silver">>>>,
       <<"orange", <<"orange", "coral", "peach">>>> >>

\* parse_query_fallback: gender_synonyms
gender_synonyms ==
    << <<"women", <<"women", "female", "girls", "ladies", "womens">>>>,
       <<"men", <<"men", "male", "boys", "mens", "guys">>>>,
       <<"unisex", <<"unisex", "both", "all">>>> >>

(***************************************************************************)
(* Query interpreter, annotated algorithm (parse_query_with_nlp).          *)
(* The annotator's output for a query is a record                          *)
(*   [tokens : sequence of [text, pos, lemma, is_stop, children],          *)
(*    ents   : sequence of [label, text]]                                  *)
(* where children lists the indices of a token's syntactic children.       *)
(***************************************************************************)
\* str.strip()
Strip(s) ==
    LET first == SpanEnd(s, 1, FALSE)
        last == IF first > Len(s) THEN 0
                ELSE CHOOSE j \in first..Len(s) :
                        /\ ~IsSpace(CharAt(s, j))
                        /\ \A m \in (j + 1)..Len(s) : IsSpace(CharAt(s, m))
    IN  SubSeq(s, first, last)

RECURSIVE EntitiesFound(_, _, _)
\* for ent in doc.ents: entities_found[ent.label_] = ent.text.lower()
EntitiesFound(ents, k, found) ==
    IF k > Len(ents) THEN found
    ELSE EntitiesFound(ents, k + 1, MapPut(found, ents[k].label, Lower(ents[k].text)))

RECURSIVE ChildLoop(_, _, _, _, _)
\* The loop over token.children: [phrase, mods] after the children from k on.
ChildLoop(tokens, children, k, phrase, mods) ==
    IF k > Len(children) THEN [phrase |-> phrase, mods |-> mods]
    ELSE LET child == tokens[children[k]]
         IN  IF child.pos = "ADJ"
             THEN ChildLoop(tokens, children, k + 1,
                            Lower(child.text) \o " " \o phrase,
                            Append(mods, <<Lower(child.text), phrase>>))
             ELSE ChildLoop(tokens, children, k + 1, phrase, mods)

RECURSIVE TokenLoop(_, _, _)
\* The loop over the tokens of the doc: noun_phrases, adjective_modifiers, keywords.
TokenLoop(tokens, i, acc) ==
    IF i > Len(tokens) THEN acc
    ELSE LET token == tokens[i]
             np == ChildLoop(tokens, token.children, 1, Lower(token.text),
                             acc.adjective_modifiers)
             acc1 == IF token.pos = "NOUN"
                     THEN [acc EXCEPT !.noun_phrases = Append(@, np.phrase),
                                      !.adjective_modifiers = np.mods]
                     ELSE acc
             acc2 == IF /\ token.pos \in {"NOUN", "ADJ", "PROPN"}
                        /\ ~token.is_stop
                        /\ Len(token.text) > 2
                     THEN [acc1 EXCEPT !.keywords = Append(@, Lower(token.lemma))]
                     ELSE acc1
         IN  TokenLoop(tokens, i + 1, acc2)

shoe_terms == <<"shoes", "sneakers", "boots", "footwear", "kicks">>

shoe_words == <<"shoe", "sneaker", "boot">>

AnyIn(terms, s) == \E k \in 1..Len(terms) : Contains(terms[k], s)

\* context_score of a brand variant found in the query (tenths).
BrandScore(variant, query_lower) ==
    10 + (IF AnyIn(shoe_terms, query_lower) THEN 5 ELSE 0)
       + (IF \/ variant = Strip(query_lower)
             \/ Contains(" " \o variant \o " ", " " \o query_lower \o " ")
          THEN 3 ELSE 0)

RECURSIVE ModifierBonus(_, _, _)
\* 0.5 for every (adj, noun) pair with the variant in adj and a shoe word in noun.
ModifierBonus(variant, mods, k) ==
    IF k > Len(mods) THEN 0
    ELSE (IF Contains(variant, mods[k][1]) /\ AnyIn(shoe_words, mods[k][2]) THEN 5 ELSE 0)
         + ModifierBonus(variant, mods, k + 1)

\* confidence of a color variant found in the query (tenths).
ColorScore(variant, adjective_modifiers) ==
    10 + ModifierBonus(variant, adjective_modifiers, 1)

\* confidence of a category variant found in the query (tenths).
CategoryScore(variant, noun_phrases) ==
    10 + (IF \E k \in 1..Len(noun_phrases) : noun_phrases[k] = variant THEN 3 ELSE 0)

VariantScore(kind, variant, query_lower, sem) ==
    CASE kind = "brand" -> BrandScore(variant, query_lower)
      [] kind = "color" -> ColorScore(variant, sem.adjective_modifiers)
      [] kind = "category" -> CategoryScore(variant, sem.noun_phrases)

RECURSIVE EntryConfidence(_, _, _, _, _)
\* The score one dictionary entry accumulates over its variants from v on:
\*   for variant in variants: if variant in query_lower: ... += score
EntryConfidence(kind, variants, v, query_lower, sem) ==
    IF v > Len(variants) THEN 0
    ELSE (IF Contains(variants[v], query_lower)
          THEN VariantScore(kind, variants[v], query_lower, sem) ELSE 0)
         + EntryConfidence(kind, variants, v + 1, query_lower, sem)

\* for value, variants in entities.items(): ...
\*     confidence[value] = confidence.get(value, 0) + score
\* The map holds, in dictionary order, the entries with a variant in the query
\* (every score is positive).
ConfidenceLoop(kind, entities, query_lower, sem) ==
    LET all == [e \in 1..Len(entities) |->
                    <<entities[e][1],
                      EntryConfidence(kind, entities[e][2], 1, query_lower, sem)>>]
        Found(p) == p[2] > 0
    IN  SelectSeq(all, Found)

\* filters[attr] = max(confidence.items(), key=lambda x: x[1])[0] if confidence
Winner(confidence) == IF Len(confidence) > 0 THEN Some(MaxKey(confidence)) ELSE None

\* The first dictionary entry with a synonym in the query (gender, and every
\* attribute of the degraded algorithm).
FirstEntry(entities, query_lower) ==
    IF \E e \in 1..Len(entities) : AnyIn(entities[e][2], query_lower)
    THEN Some(entities[CHOOSE e \in 1..Len(entities) :
                    /\ AnyIn(entities[e][2], query_lower)
                    /\ \A j \in 1..(e - 1) : ~AnyIn(entities[j][2], query_lower)][1])
    ELSE None

Pat(words, tail) ==
    [k \in 1..(2 * Len(words)) |->
        IF k % 2 = 1 THEN <<"lit", words[(k + 1) \div 2]>> ELSE <<"ws1">>] \o <<tail>>

\* '<\s*' + tail and '>\s*' + tail
SignPat(sign, tail) == << <<"lit", sign>>, <<"ws0">>, tail >>

\* under_patterns and over_patterns of parse_query_with_nlp, ending in tail.
nlp_under_patterns(tail) ==
    << Pat(<<"under">>, tail), Pat(<<"below">>, tail), Pat(<<"less", "than">>, tail),
       SignPat("<", tail), Pat(<<"max">>, tail), Pat(<<"budget">>, tail) >>

nlp_over_patterns(tail) ==
    << Pat(<<"over">>, tail), Pat(<<"above">>, tail), Pat(<<"more", "than">>, tail),
       SignPat(">", tail), Pat(<<"min">>, tail), Pat(<<"minimum">>, tail) >>

RECURSIVE CardinalLoop(_, _, _, _)
\* for pattern in patterns: if re.search(pattern, query_lower):
\*     try: bound = int(cardinal_text); break   except ValueError: pass
CardinalLoop(pats, k, query_lower, cardinal_text) ==
    IF k > Len(pats) THEN None
    ELSE IF ReSearch(pats[k], query_lower).hit /\ PyInt(cardinal_text) # None
         THEN PyInt(cardinal_text)
         ELSE CardinalLoop(pats, k + 1, query_lower, cardinal_text)

RECURSIVE RegexLoop(_, _, _)
\* for pattern in patterns: match = re.search(pattern, query_lower)
\*     if match: bound = int(match.group(1)); break
RegexLoop(pats, k, query_lower) ==
    IF k > Len(pats) THEN None
    ELSE IF ReSearch(pats[k], query_lower).hit
         THEN Some(DigitsValue(ReSearch(pats[k], query_lower).group, 0))
         ELSE RegexLoop(pats, k + 1, query_lower)

\* Lines 243-275 and 406-417: the plain pattern lists over the raw text, applied
\* to the bounds found so far.
PlainPrice(under, over, query_lower, bounds) ==
    LET mx == RegexLoop(under, 1, query_lower)
        max1 == IF mx # None THEN mx ELSE bounds.price_max
        mn == RegexLoop(over, 1, query_lower)
    IN  [raised |-> FALSE,
         price_max |-> max1,
         price_min |-> IF ~TruthyInt(max1) /\ mn # None THEN mn ELSE bounds.price_min]

\* Lines 188-241: the MONEY branch, else the CARDINAL branch.
EntityPrice(entities_found, query_lower) ==
    LET money_text == MapGet(entities_found, "MONEY", "")
        cardinal_text == MapGet(entities_found, "CARDINAL", "")
        unset == [raised |-> FALSE, price_max |-> None, price_min |-> None]
    IN  IF money_text # ""
        THEN LET price_match == ReSearch(<< <<"num">> >>, money_text)
             IN  IF price_match.hit
                 THEN [unset EXCEPT !.price_max = Some(DigitsValue(price_match.group, 0))]
                 ELSE unset
        ELSE IF cardinal_text # ""
        THEN LET tail == <<"text", cardinal_text>>
                 mx == CardinalLoop(nlp_under_patterns(tail), 1, query_lower, cardinal_text)
                 found_price == mx # None
             IN  IF ~RegexCompiles(<<tail>>)
                 THEN [unset EXCEPT !.raised = TRUE]
                 ELSE IF found_price
                 THEN [unset EXCEPT !.price_max = mx]
                 ELSE [unset EXCEPT !.price_min =
                          CardinalLoop(nlp_over_patterns(tail), 1, query_lower, cardinal_text)]
        ELSE unset

\* Line 243: "if not filters['price_max'] and not filters['price_min']", the
\* plain patterns run when the entity branches left both bounds falsy.
PlainAfter(ent, query_lower) ==
    IF ent.raised THEN ent
    ELSE IF ~TruthyInt(ent.price_max) /\ ~TruthyInt(ent.price_min)
    THEN PlainPrice(nlp_under_patterns(<<"num">>), nlp_over_patterns(<<"num">>),
                    query_lower, ent)
    ELSE ent

\* Price extraction of the annotated algorithm (lines 188-275).
NlpPrice(entities_found, query_lower) ==
    PlainAfter(EntityPrice(entities_found, query_lower), query_lower)

\* The filters dict as first built (lines 62-72 and 291-299); the degraded
\* algorithm's dict has no "entities" and no "semantic_analysis" key, which
\* filters.get reads as None.
EmptyFilters ==
    [category |-> None, brand |-> None, color |-> None, price_max |-> None,
     price_min |-> None, gender |-> None, keywords |-> <<>>, entities |-> <<>>,
     semantic_analysis |-> None]

(***************************************************************************)
(* Query interpreter, degraded algorithm (parse_query_fallback)            *)
(***************************************************************************)
RECURSIVE Split(_, _)
\* str.split(): the maximal runs of non-whitespace characters of s from i on.
Split(s, i) ==
    LET start == SpanEnd(s, i, FALSE)
        stop == IF start > Len(s) THEN start
                ELSE CHOOSE j \in (start + 1)..(Len(s) + 1) :
                        /\ j = Len(s) + 1 \/ IsSpace(CharAt(s, j))
                        /\ \A m \in start..(j - 1) : ~IsSpace(CharAt(s, m))
    IN  IF start > Len(s) THEN <<>>
        ELSE <<SubSeq(s, start, stop - 1)>> \o Split(s, stop)

LongerThan2(w) == Len(w) > 2

fallback_under_patterns ==
    << Pat(<<"under">>, <<"num">>), Pat(<<"below">>, <<"num">>),
       Pat(<<"less", "than">>, <<"num">>), SignPat("<", <<"num">>),
       << <<"lit", "price">>, <<"ws1">>, <<"lit", "<">>, <<"ws0">>, <<"num">> >>,
       Pat(<<"max">>, <<"num">>), Pat(<<"maximum">>, <<"num">>),
       Pat(<<"budget">>, <<"num">>) >>

fallback_over_patterns ==
    << Pat(<<"over">>, <<"num">>), Pat(<<"above">>, <<"num">>),
       Pat(<<"more", "than">>, <<"num">>), SignPat(">", <<"num">>),
       << <<"lit", "price">>, <<"ws1">>, <<"lit", ">">>, <<"ws0">>, <<"num">> >>,
       Pat(<<"min">>, <<"num">>), Pat(<<"minimum">>, <<"num">>) >>

\* Price extraction of the degraded algorithm (lines 385-417).
FallbackPrice(query_lower) ==
    PlainPrice(fallback_under_patterns, fallback_over_patterns, query_lower,
               [raised |-> FALSE, price_max |-> None, price_min |-> None])

\* The result of an interpreter: the bounds of its price extraction in the
\* filters, or the exception the extraction raised.
WithPrice(price, f) ==
    [raised |-> price.raised,
     filters |-> [f EXCEPT !.price_max = price.price_max, !.price_min = price.price_min]]

parse_query_fallback(query_lower) ==
    WithPrice(
        FallbackPrice(query_lower),
        [EmptyFilters EXCEPT
            !.keywords = SelectSeq(Split(query_lower, 1), LongerThan2),
            !.category = FirstEntry(category_synonyms, query_lower),
            !.brand = FirstEntry(brand_synonyms, query_lower),
            !.color = FirstEntry(color_synonyms, query_lower),
            !.gender = FirstEntry(gender_synonyms, query_lower)])

(***************************************************************************)
(* parse_query_with_nlp: the annotated algorithm when the annotator is     *)
(* loaded, the degraded one otherwise.  raised: an exception left it.      *)
(***************************************************************************)
parse_query_with_nlp(q, nlp_loaded, d) ==
    LET query_lower == Lower(q)
        entities_found == EntitiesFound(d.ents, 1, <<>>)
        sem0 == TokenLoop(d.tokens, 1,
                          [noun_phrases |-> <<>>, adjective_modifiers |-> <<>>,
                           keywords |-> <<>>])
        brand_confidence == ConfidenceLoop("brand", brand_entities, query_lower, sem0)
        color_confidence == ConfidenceLoop("color", color_entities, query_lower, sem0)
        category_confidence == ConfidenceLoop("category", category_entities, query_lower, sem0)
    IN  IF ~nlp_loaded THEN parse_query_fallback(query_lower)
        ELSE WithPrice(
                NlpPrice(entities_found, query_lower),
                [EmptyFilters EXCEPT
                    !.entities = entities_found,
                    !.keywords = sem0.keywords,
                    !.brand = Winner(brand_confidence),
                    !.color = Winner(color_confidence),
                    !.category = Winner(category_confidence),
                    !.gender = FirstEntry(gender_entities, query_lower),
                    !.semantic_analysis =
                        Some([noun_phrases |-> sem0.noun_phrases,
                              adjective_modifiers |-> sem0.adjective_modifiers,
                              brand_confidence |-> brand_confidence,
                              color_confidence |-> color_confidence,
                              category_confidence |-> category_confidence])])

(***************************************************************************)
(* Clause builder, rich backend (search_products, lines 428-588).          *)
(* Boosts are in hundredths.                                               *)
(***************************************************************************)
Min(a, b) == IF a <= b THEN a ELSE b

\* A request for twice as many hits.
EsSizeDoubled == 50 + 50

\* "size" of both es_query dicts.
EsSize == 50

Term(field, value, boost) ==
    [type |-> "term", field |-> field, value |-> value, boost |-> boost]

\* The multi_match clause over the full query text (lines 431-439).
QueryClause(q) ==
    [type |-> "multi_match", field |-> "title^3,description^2,category^2,brand^2,tags",
     value |-> q, boost |-> 100]

\* One multi_match clause per keyword longer than 2 characters (lines 441-449).
KeywordClauses(keywords) ==
    LET all == [k \in 1..Len(keywords) |->
                    [type |-> "multi_match", field |-> "title^3,description,category,brand,tags",
                     value |-> keywords[k], boost |-> 100]]
        Long(c) == Len(c.value) > 2
    IN  SelectSeq(all, Long)

\* Term clauses whose boost is the unclamped product confidence * weight.
ConfidenceClausesUnclamped(field, confidence, weight, clamp) ==
    [i \in 1..Len(confidence) |-> Term(field, confidence[i][1], confidence[i][2] * weight)]

\* boost_value = min(confidence * weight, clamp), one term clause per map entry.
ConfidenceClauses(field, confidence, weight, clamp) ==
    [i \in 1..Len(confidence) |->
        Term(field, confidence[i][1], Min(confidence[i][2] * weight, clamp))]

BrandClauses(semantic) == ConfidenceClauses("brand.keyword", semantic.brand_confidence, 20, 500)

ColorClauses(semantic) == ConfidenceClauses("color.keyword", semantic.color_confidence, 18, 400)

CategoryClauses(semantic) ==
    ConfidenceClauses("category.keyword", semantic.category_confidence, 15, 300)

\* One match_phrase clause per noun phrase longer than 3 characters (lines 490-500).
PhraseClauses(semantic) ==
    LET all == [i \in 1..Len(semantic.noun_phrases) |->
                    [type |-> "match_phrase", field |-> "title",
                     value |-> semantic.noun_phrases[i], boost |-> 130]]
        Long(c) == Len(c.value) > 3
    IN  SelectSeq(all, Long)

\* The else branch with the brand clause boosted to 3.0 instead of 2.0.
ExactClausesBrandFavoured(f) ==
    (IF TruthyStr(f.category) THEN <<Term("category.keyword", f.category[1], 200)>> ELSE <<>>)
    \o (IF TruthyStr(f.brand) THEN <<Term("brand.keyword", f.brand[1], 300)>> ELSE <<>>)
    \o (IF TruthyStr(f.color) THEN <<Term("color.keyword", f.color[1], 200)>> ELSE <<>>)

\* The else branch (lines 502-531): one term clause per resolved attribute.
ExactClauses(f) ==
    (IF TruthyStr(f.category) THEN <<Term("category.keyword", f.category[1], 200)>> ELSE <<>>)
    \o (IF TruthyStr(f.brand) THEN <<Term("brand.keyword", f.brand[1], 200)>> ELSE <<>>)
    \o (IF TruthyStr(f.color) THEN <<Term("color.keyword", f.color[1], 200)>> ELSE <<>>)

\* if filters.get("semantic_analysis"): ... else: ...   (lines 451-531)
AttributeClauses(f) ==
    IF f.semantic_analysis # None
    THEN LET semantic == f.semantic_analysis[1]
         IN  BrandClauses(semantic) \o ColorClauses(semantic)
             \o CategoryClauses(semantic) \o PhraseClauses(semantic)
    ELSE ExactClauses(f)

\* gender_should (lines 533-540).
GenderTerms(gender) ==
    IF gender = "women" THEN <<"women", "girls", "female">>
    ELSE IF gender = "men" THEN <<"men", "boys", "male">>
    ELSE <<gender>>

GenderClauses(f) ==
    IF TruthyStr(f.gender)
    THEN [i \in 1..Len(GenderTerms(f.gender[1])) |->
            Term("gender.keyword", GenderTerms(f.gender[1])[i], 150)]
    ELSE <<>>

\* filter_clauses (lines 552-556).
FilterClauses(f) ==
    (IF TruthyInt(f.price_max)
     THEN <<[type |-> "range", field |-> "price", op |-> "lte", value |-> f.price_max[1]]>>
     ELSE <<>>)
    \o (IF TruthyInt(f.price_min)
        THEN <<[type |-> "range", field |-> "price", op |-> "gte", value |-> f.price_min[1]]>>
        ELSE <<>>)

\* es_query; without filter clauses the dict has no "filter" key (lines 558-588).
BuildEsQuery(f, q) ==
    [should |-> <<QueryClause(q)>> \o KeywordClauses(f.keywords)
                \o AttributeClauses(f) \o GenderClauses(f),
     filter |-> FilterClauses(f),
     minimum_should_match |-> 1,
     sort |-> <<"_score desc", "rating desc", "price asc">>,
     size |-> EsSize]

(***************************************************************************)
(* Clause builder, simple backend (search_products, lines 620-698)         *)
(***************************************************************************)
\* "$limit" of the pipeline.
MongoLimit == 50

Regex(field, pattern) == [op |-> "regex", field |-> field, value |-> pattern]

text_fields == <<"title", "description", "category", "brand", "color", "tags">>

\* term_condition: an $or of one case-insensitive regex per text field.
TermCondition(term) ==
    [op |-> "or",
     members |-> List([i \in 1..Len(text_fields) |-> Regex(text_fields[i], term)])]

\* text_conditions (lines 652-668).
TextConditions(f, q) ==
    IF \/ Len(f.keywords) > 0
       \/ ~(TruthyStr(f.category) \/ TruthyStr(f.brand) \/ TruthyStr(f.color)
            \/ TruthyStr(f.gender))
    THEN LET search_terms == IF Len(f.keywords) > 0 THEN f.keywords ELSE <<Lower(q)>>
             long_terms == SelectSeq(search_terms, LongerThan2)
         IN  List([i \in 1..Len(long_terms) |-> TermCondition(long_terms[i])])
    ELSE <<>>

\* mongo_query["$and"] before it is normalised (lines 620-674).
MongoConjunction(f, q) ==
    (IF TruthyStr(f.category) THEN <<Regex("category", f.category[1])>> ELSE <<>>)
    \o (IF TruthyStr(f.brand) THEN <<Regex("brand", f.brand[1])>> ELSE <<>>)
    \o (IF TruthyStr(f.color) THEN <<Regex("color", f.color[1])>> ELSE <<>>)
    \o (IF TruthyStr(f.gender) THEN <<Regex("gender", f.gender[1])>> ELSE <<>>)
    \o (IF TruthyInt(f.price_max)
        THEN <<[op |-> "lte", field |-> "price", value |-> f.price_max[1]]>> ELSE <<>>)
    \o (IF TruthyInt(f.price_min)
        THEN <<[op |-> "gte", field |-> "price", value |-> f.price_min[1]]>> ELSE <<>>)
    \o (LET text_conditions == TextConditions(f, q)
        IN  IF Len(text_conditions) = 0 THEN <<>>
            ELSE IF Len(text_conditions) = 1 THEN <<text_conditions[1]>>
            ELSE <<[op |-> "and", members |-> text_conditions]>>)

\* mongo_query: {} for an empty conjunction, the member itself for a single one.
BuildMongoQuery(f, q) ==
    LET conj == MongoConjunction(f, q)
    IN  IF Len(conj) = 0 THEN [op |-> "all"]
        ELSE IF Len(conj) = 1 THEN conj[1]
        ELSE [op |-> "and", members |-> conj]

(***************************************************************************)
(* Result rescorer (apply_nlp_scoring).                                    *)
(* A product is a record of optional fields (None is a null value of the   *)
(* stored document) with its backend relevance _score.  Scores are         *)
(* integers in units of 1/ScoreUnit; the model's backend scores are        *)
(* multiples of ScoreUnit/10, so that up to four penalties stay exact.     *)
(***************************************************************************)
ScoreUnit == 10 * 10 * 10 * 10 * 10

\* score * tenths / 10
Times(score, tenths) == (score * tenths) \div 10

\* semantic = filters.get("semantic_analysis", {})
Semantic(f) ==
    IF f.semantic_analysis # None THEN f.semantic_analysis[1]
    ELSE [noun_phrases |-> <<>>, adjective_modifiers |-> <<>>, brand_confidence |-> <<>>,
          color_confidence |-> <<>>, category_confidence |-> <<>>]

\* if filters.get(attr) and semantic.get(attr + "_confidence")
Guarded(target, confidence) == TruthyStr(target) /\ Len(confidence) > 0

\* The brand step without the penalty of a mismatch.
BrandStepNoPenalty(score, product, f) ==
    IF Guarded(f.brand, Semantic(f).brand_confidence)
    THEN IF Lower(product.brand[1]) = Lower(f.brand[1])
         THEN score + MapGet(Semantic(f).brand_confidence, Lower(f.brand[1]), 10)
                      * 3 * (ScoreUnit \div 10)
         ELSE score
    ELSE score

\* Lines 728-738.
BrandStep(score, product, f) ==
    IF Guarded(f.brand, Semantic(f).brand_confidence)
    THEN IF Lower(product.brand[1]) = Lower(f.brand[1])
         THEN score + MapGet(Semantic(f).brand_confidence, Lower(f.brand[1]), 10)
                      * 3 * (ScoreUnit \div 10)
         ELSE Times(score, 3)
    ELSE score

\* Lines 740-750.
ColorStep(score, product, f) ==
    IF Guarded(f.color, Semantic(f).color_confidence)
    THEN IF Lower(product.color[1]) = Lower(f.color[1])
         THEN score + MapGet(Semantic(f).color_confidence, Lower(f.color[1]), 10)
                      * 2 * (ScoreUnit \div 10)
         ELSE Times(score, 4)
    ELSE score

shoe_categories == {"sneakers", "flats", "boots", "sandals", "heels"}

\* Lines 752-765.
CategoryStep(score, product, f, original_query) ==
    IF Guarded(f.category, Semantic(f).category_confidence)
    THEN IF Lower(product.category[1]) = Lower(f.category[1])
         THEN score + (MapGet(Semantic(f).category_confidence, Lower(f.category[1]), 10)
                       * 15 * (ScoreUnit \div 10)) \div 10
         ELSE IF /\ Contains("shoes", Lower(original_query))
                 /\ Lower(product.category[1]) \in shoe_categories
         THEN score + ScoreUnit \div 2
         ELSE Times(score, 7)
    ELSE score

\* gender_match (lines 771-777).
GenderMatch(target_gender, product_gender) ==
    \/ target_gender = "women" /\ product_gender \in {"women", "girls", "female"}
    \/ target_gender = "men" /\ product_gender \in {"men", "boys", "male"}
    \/ target_gender = product_gender

\* Lines 767-784.
GenderStep(score, product, f) ==
    IF TruthyStr(f.gender)
    THEN IF GenderMatch(Lower(f.gender[1]), Lower(product.gender[1]))
         THEN score + ScoreUnit
         ELSE Times(score, 6)
    ELSE score

\* Lines 786-791: 0.8 for every noun phrase contained in the title.
PhraseStep(score, product, f) ==
    IF Len(Semantic(f).noun_phrases) > 0
    THEN score + Cardinality({k \in 1..Len(Semantic(f).noun_phrases) :
                    Contains(Semantic(f).noun_phrases[k], Lower(product.title[1]))})
                 * 8 * (ScoreUnit \div 10)
    ELSE score

\* The steps with the category step before the color step.
NlpScoreCategoryFirst(product, f, original_query) ==
    PhraseStep(
        GenderStep(
            ColorStep(
                CategoryStep(BrandStep(product._score, product, f), product, f, original_query),
                product, f),
            product, f),
        product, f)

\* nlp_score of one product: the steps in their order, each on the running score.
NlpScore(product, f, original_query) ==
    PhraseStep(
        GenderStep(
            CategoryStep(
                ColorStep(BrandStep(product._score, product, f), product, f),
                product, f, original_query),
            product, f),
        product, f)

\* .lower() of a null field raises AttributeError: a step that reads a field
\* reads it before it compares.
ScoringRaises(product, f) ==
    \/ Guarded(f.brand, Semantic(f).brand_confidence) /\ product.brand = None
    \/ Guarded(f.color, Semantic(f).color_confidence) /\ product.color = None
    \/ Guarded(f.category, Semantic(f).category_confidence) /\ product.category = None
    \/ TruthyStr(f.gender) /\ product.gender = None
    \/ Len(Semantic(f).noun_phrases) > 0 /\ product.title = None

\* The order of an ascending sort that is reversed afterwards: a larger key
\* first, equal keys in reverse input order.
SortsBeforeReversed(keys, i, j) == keys[i] > keys[j] \/ (keys[i] = keys[j] /\ i > j)

\* Whether item i comes before item j in list.sort(key, reverse=True): a larger
\* key first, and the sort is stable.
SortsBefore(keys, i, j) == keys[i] > keys[j] \/ (keys[i] = keys[j] /\ i < j)

\* products.sort(key=lambda x: x.get("_nlp_score", 0), reverse=True)
SortByNlpScore(products) ==
    LET n == Len(products)
        keys == List([i \in 1..n |-> products[i]._nlp_score])
        rank == List([i \in 1..n |-> 1 + Cardinality({j \in 1..n : SortsBefore(keys, j, i)})])
    IN  List([r \in 1..n |-> products[CHOOSE i \in 1..n : rank[i] = r]])

\* apply_nlp_scoring(products, filters, original_query): [raised, products].
apply_nlp_scoring(products, f, original_query) ==
    IF Len(products) = 0 THEN [raised |-> FALSE, products |-> products]
    ELSE IF \E i \in 1..Len(products) : ScoringRaises(products[i], f)
    THEN [raised |-> TRUE, products |-> <<>>]
    ELSE [raised |-> FALSE,
          products |->
            SortByNlpScore(
                List([i \in 1..Len(products) |->
                        [_nlp_score |-> NlpScore(products[i], f, original_query),
                         _original_score |-> products[i]._score,
                         _pos |-> i,
                         doc |-> products[i]]]))]

(***************************************************************************)
(* The backends as search_products uses them.  A stored document is a      *)
(* record [_id, title, brand, color, category, gender, price, rating,      *)
(* stock]: text fields are optional (None is a null value), rating is in   *)
(* tenths.  A store is a sequence of documents.                            *)
(***************************************************************************)
\* The value a regex predicate reads: fields the documents do not have are missing.
FieldValue(d, field) == IF field \in DOMAIN d THEN d[field] ELSE None

RECURSIVE MongoCompiles(_)
\* Whether every $regex of the query compiles.
MongoCompiles(mq) ==
    CASE mq.op = "regex" -> RegexCompiles(<< <<"text", mq.value>> >>)
      [] mq.op \in {"and", "or"} -> \A k \in 1..Len(mq.members) : MongoCompiles(mq.members[k])
      [] OTHER -> TRUE

RECURSIVE MongoMatches(_, _)
\* {"$match": mongo_query} on one document; "$options": "i" ignores case.
MongoMatches(d, mq) ==
    CASE mq.op = "all" -> TRUE
      [] mq.op = "and" -> \A k \in 1..Len(mq.members) : MongoMatches(d, mq.members[k])
      [] mq.op = "or" -> \E k \in 1..Len(mq.members) : MongoMatches(d, mq.members[k])
      [] mq.op = "regex" ->
            /\ FieldValue(d, mq.field) # None
            /\ ReSearch(<< <<"text", Lower(mq.value)>> >>, Lower(FieldValue(d, mq.field)[1])).hit
      [] mq.op = "lte" -> d.price <= mq.value
      [] mq.op = "gte" -> d.price >= mq.value

\* A divisor without the added 1.
PriceAsDivisor(d) == d.price

\* {"$add": ["$price", 1]}, the divisor of the composite score.
MongoDivisor(d) == d.price + 1

\* The composite score rating*2 + (5 if stock > 0 else 0) + 100/(price + 1) as a
\* fraction num/den with rating in tenths.
MongoScore(d) ==
    [num |-> (2 * d.rating + (IF d.stock > 0 THEN 50 ELSE 0)) * MongoDivisor(d) + 1000,
     den |-> 10 * MongoDivisor(d)]

\* a > b for fractions with non-zero denominators.
FracGreater(a, b) ==
    IF (a.den > 0) = (b.den > 0) THEN a.num * b.den > b.num * a.den
    ELSE a.num * b.den < b.num * a.den

FracEqual(a, b) == a.num * b.den = b.num * a.den

\* {"$sort": {"score": -1, "price": 1, "rating": -1}}; documents that tie keep
\* the order of the collection.
MongoBefore(keys, i, j) ==
    \/ FracGreater(keys[i].score, keys[j].score)
    \/ /\ FracEqual(keys[i].score, keys[j].score)
       /\ \/ keys[i].price < keys[j].price
          \/ keys[i].price = keys[j].price /\ keys[i].rating > keys[j].rating
          \/ keys[i].price = keys[j].price /\ keys[i].rating = keys[j].rating /\ i < j

MongoSort(docs) ==
    LET n == Len(docs)
        keys == List([i \in 1..n |->
                        [score |-> MongoScore(docs[i]), price |-> docs[i].price,
                         rating |-> docs[i].rating]])
        rank == List([i \in 1..n |-> 1 + Cardinality({j \in 1..n : MongoBefore(keys, j, i)})])
    IN  List([r \in 1..n |-> docs[CHOOSE i \in 1..n : rank[i] = r]])

\* The documents that pass {"$match": mongo_query}, in the order of the
\* collection; none when a $regex of the query does not compile.
MongoMatched(store, mq) ==
    LET Matched(d) == MongoMatches(d, mq)
    IN  IF MongoCompiles(mq) THEN SelectSeq(store, Matched) ELSE <<>>

\* collection.aggregate(pipeline) and the loop over the cursor (lines 683-705)
\* on the documents that pass $match: [error, products].  The aggregation
\* fails on a $regex that does not compile and on a division by zero.
MongoAggregate(matched, mq) ==
    IF ~MongoCompiles(mq) THEN [error |-> "regex", products |-> <<>>]
    ELSE IF \E i \in 1..Len(matched) : MongoDivisor(matched[i]) = 0
    THEN [error |-> "divide", products |-> <<>>]
    ELSE LET sorted == MongoSort(matched)
         IN  [error |-> "",
              products |->
                List([i \in 1..Min(Len(sorted), MongoLimit) |->
                        [sorted[i] EXCEPT !._id = ToString(@)]
                        @@ [score |-> MongoScore(sorted[i])]])]

\* Whether a document passes the range filters of the rich-backend request.
EsFilterMatches(d, filter) ==
    \A k \in 1..Len(filter) :
        IF filter[k].op = "lte" THEN d.price <= filter[k].value
        ELSE d.price >= filter[k].value

\* The "sort" of es_query: _score desc, rating desc, price asc.
EsBefore(listed, i, j) ==
    LET a == listed[i]
        b == listed[j]
    IN  \/ a._score > b._score
        \/ a._score = b._score /\ a.rating > b.rating
        \/ a._score = b._score /\ a.rating = b.rating /\ a.price < b.price
        \/ a._score = b._score /\ a.rating = b.rating /\ a.price = b.price /\ i < j

EsSort(listed) ==
    LET n == Len(listed)
        rank == List([i \in 1..n |-> 1 + Cardinality({j \in 1..n : EsBefore(listed, j, i)})])
    IN  List([r \in 1..n |-> listed[CHOOSE i \in 1..n : rank[i] = r]])

\* response["hits"]["total"]: the number of documents that pass the hard filters.
EsTotal(store, esq) ==
    LET Passing(d) == EsFilterMatches(d, esq.filter)
    IN  Len(SelectSeq(store, Passing))

\* es_client.search(index, body=es_query) and the loop over the hits (lines
\* 597-603): the documents that pass the hard filters, each with the relevance
\* score the backend gives it, in the order of the request's sort, at most
\* "size" of them; product["_score"] = hit["_score"].
EsSearch(store, scores, esq) ==
    LET Passing(d) == EsFilterMatches(d, esq.filter)
        scored == List([i \in 1..Len(store) |-> store[i] @@ [_score |-> scores[i]]])
        sorted == EsSort(SelectSeq(scored, Passing))
    IN  SubSeq(sorted, 1, Min(Len(sorted), esq.size))

(***************************************************************************)
(* Inputs: the annotator's output for a query.                             *)
(* The annotator is an external capability; the model gives it the         *)
(* whitespace-separated words as tokens, a tag for every token out of the  *)
(* tags its lexicon allows for the word, adjectives attached (or not) to   *)
(* the noun that ends their phrase, a plural noun's lemma without its "s", *)
(* any token that looks like a quantity labelled MONEY, CARDINAL or not    *)
(* at all.                                                                 *)
(***************************************************************************)
AdjWords == {"red", "running", "black", "casual"}

NounWords == {"sneakers", "shoes", "boots", "sandals", "nike"}

PropnWords == {"nike", "adidas", "jordan", "air"}

\* Words the annotator may also leave untagged (a verb, a particle).
OtherWords == {"running"}

StopWords == {"under", "over", "than", "less", "more", "for", "all", "both"}

NumberWords == {"two"}

PosChoices(w) ==
    LET tags == (IF Lower(w) \in AdjWords THEN {"ADJ"} ELSE {})
                \cup (IF Lower(w) \in NounWords THEN {"NOUN"} ELSE {})
                \cup (IF Lower(w) \in PropnWords THEN {"PROPN"} ELSE {})
                \cup (IF Lower(w) \in OtherWords THEN {"X"} ELSE {})
    IN  IF tags = {} THEN {"X"} ELSE tags

QuantityLike(w) ==
    \/ \E i \in 1..Len(w) : IsDigit(CharAt(w, i))
    \/ Lower(w) \in NumberWords

LabelChoices(w) == IF QuantityLike(w) THEN {"", "MONEY", "CARDINAL"} ELSE {""}

RECURSIVE Choices(_, _, _)
\* Every sequence that picks, for each word from i on, one tag (or one label).
Choices(words, i, labels) ==
    IF i > Len(words) THEN {<<>>}
    ELSE {<<c>> \o rest :
            c \in (IF labels THEN LabelChoices(words[i]) ELSE PosChoices(words[i])),
            rest \in Choices(words, i + 1, labels)}

Lemma(w, pos) ==
    IF pos = "NOUN" /\ Len(w) > 3 /\ CharAt(w, Len(w)) = "s"
    THEN SubSeq(w, 1, Len(w) - 1) ELSE w

\* The last token of the run of adjectives, nouns and proper nouns that token j
\* starts: the head of the phrase.
PhraseEnd(tags, j) ==
    CHOOSE e \in j..Len(tags) :
        /\ \A m \in j..e : tags[m] \in {"ADJ", "NOUN", "PROPN"}
        /\ e = Len(tags) \/ tags[e + 1] \notin {"ADJ", "NOUN", "PROPN"}

\* The adjectives of the phrase that token i ends, in the order of the text.
AdjBefore(tags, i) ==
    LET IsChild(j) == tags[j] = "ADJ" /\ PhraseEnd(tags, j) = i
    IN  SelectSeq([j \in 1..(i - 1) |-> j], IsChild)

MakeDoc(words, tags, attach, labels) ==
    LET Labelled(e) == e.label # ""
    IN  [tokens |->
            [i \in 1..Len(words) |->
                [text |-> words[i], pos |-> tags[i], lemma |-> Lemma(words[i], tags[i]),
                 is_stop |-> Lower(words[i]) \in StopWords,
                 children |-> IF attach /\ tags[i] = "NOUN" THEN AdjBefore(tags, i) ELSE <<>>]],
         ents |-> SelectSeq([i \in 1..Len(words) |-> [label |-> labels[i], text |-> words[i]]],
                            Labelled)]

\* doc = nlp(query)
AnnotatorDocs(q) ==
    LET words == Split(q, 1)
    IN  {MakeDoc(words, tags, attach, labels) :
            tags \in Choices(words, 1, FALSE), attach \in BOOLEAN,
            labels \in Choices(words, 1, TRUE)}

\* The doc of a request that the degraded algorithm serves: none.
NoDoc == [tokens |-> <<>>, ents |-> <<>>]

(***************************************************************************)
(* Inputs: stored documents, stores, queries.                              *)
(***************************************************************************)
NikeAirMax ==
    [_id |-> 0, title |-> Some("Nike Air Max"), brand |-> Some("nike"),
     color |-> Some("red"), category |-> Some("sneakers"), gender |-> Some(""),
     price |-> 70, rating |-> 45, stock |-> 3]

AdidasRunner ==
    [_id |-> 0, title |-> Some("Adidas Runner"), brand |-> Some("adidas"),
     color |-> Some("blue"), category |-> Some("sneakers"), gender |-> Some(""),
     price |-> 60, rating |-> 48, stock |-> 0]

\* A document with price 0.
FreeSandals ==
    [_id |-> 0, title |-> Some("Free Sandals"), brand |-> Some("puma"),
     color |-> Some("white"), category |-> Some("sandals"), gender |-> Some("women"),
     price |-> 0, rating |-> 30, stock |-> 5]

\* A document whose brand is null.
Unbranded ==
    [_id |-> 0, title |-> Some("Running Shoes"), brand |-> None,
     color |-> Some("black"), category |-> Some("sneakers"), gender |-> Some("men"),
     price |-> 40, rating |-> 40, stock |-> 1]

\* A document with a negative price.
Voucher ==
    [_id |-> 0, title |-> Some("Nike Voucher"), brand |-> Some("nike"),
     color |-> Some(""), category |-> Some(""), gender |-> Some(""),
     price |-> -1, rating |-> 10, stock |-> 1]

Numbered(docs) == List([i \in 1..Len(docs) |-> [docs[i] EXCEPT !._id = i]])

\* The largest store of the model: one more document than a backend returns.
MaxStore == 51

Bulk(n) == Numbered([i \in 1..n |-> NikeAirMax])

Stores ==
    { Numbered(<<>>),
      Numbered(<<NikeAirMax, AdidasRunner>>),
      Numbered(<<AdidasRunner, FreeSandals, NikeAirMax, Unbranded>>),
      Numbered(<<NikeAirMax, Voucher>>),
      Bulk(MaxStore) }

\* The relevance scores the rich backend gives the documents of a store.
ScoreProfiles(store) ==
    { List([i \in 1..Len(store) |-> ScoreUnit]),
      List([i \in 1..Len(store) |-> i * ScoreUnit]) }

\* The queries of the requests.
RequestQueries ==
    { "", "red nike sneakers under 80", "womens sandals", "Nike", "boots under (50" }

\* The annotator's outputs for a query; none when the annotator is not loaded.
DocsFor(q, nlp_loaded) == IF nlp_loaded THEN AnnotatorDocs(q) ELSE {NoDoc}

(***************************************************************************)
(* The service: startup, the /search handler, shutdown.                    *)
(***************************************************************************)
NoQuery == [op |-> "none"]

NoResponse == [status |-> 0, products |-> None]

Failure == [status |-> 500, products |-> None]

Success(products) == [status |-> 200, products |-> Some(products)]

\* The state of the process between requests.
Idle ==
    /\ query = ""
    /\ doc = NoDoc
    /\ filters = EmptyFilters
    /\ es_query = NoQuery
    /\ mongo_query = NoQuery
    /\ calls = <<>>
    /\ hits = <<>>
    /\ response = NoResponse

\* Module import (lines 14-23): the annotator loads or not, no client yet.
Init ==
    /\ nlp \in BOOLEAN
    /\ es_client = "None"
    /\ mongo_client = "None"
    /\ pc = "boot"
    /\ Idle

\* startup_event: each backend is connected when it is configured and reachable.
Startup ==
    /\ pc = "boot"
    /\ \E mongo_ok \in BOOLEAN, es_ok \in BOOLEAN :
        /\ mongo_client' = IF mongo_ok THEN "AsyncIOMotorClient" ELSE "None"
        /\ es_client' = IF es_ok THEN "AsyncElasticsearch" ELSE "None"
    /\ pc' = "idle"
    /\ UNCHANGED <<nlp, query, doc, filters, es_query, mongo_query, calls, hits, response>>

\* Lines 615-710: the simple backend is called if it is configured, else the
\* request fails.  done: the calls of the request so far.
MongoBranch(f, q, done) ==
    IF mongo_client # "None"
    THEN /\ mongo_query' = BuildMongoQuery(f, q)
         /\ calls' = Append(done, [backend |-> "mongo", outcome |-> "pending", found |-> 0])
         /\ pc' = "mongo_wait"
         /\ response' = response
    ELSE /\ mongo_query' = mongo_query
         /\ calls' = done
         /\ pc' = "done"
         /\ response' = Failure

\* Lines 425-597 and 712-716, with the interpreter's result: its exception is
\* answered with status 500, else the rich-backend request is built and the
\* first configured backend called.
Interpreted(q, parsed) ==
    IF parsed.raised
    THEN /\ response' = Failure
         /\ pc' = "done"
         /\ UNCHANGED <<filters, es_query, mongo_query, calls>>
    ELSE /\ filters' = parsed.filters
         /\ es_query' = BuildEsQuery(filters', q)
         /\ IF es_client # "None"
            THEN /\ calls' = <<[backend |-> "es", outcome |-> "pending", found |-> 0]>>
                 /\ pc' = "es_wait"
                 /\ UNCHANGED <<mongo_query, response>>
            ELSE MongoBranch(filters', q, <<>>)

\* search_products up to its first await (lines 423-597): the query is
\* interpreted and the rich-backend request built; an exception of the
\* interpreter is answered with status 500 (lines 712-716).
Search ==
    /\ pc = "idle"
    /\ \E q \in RequestQueries : \E d \in DocsFor(q, nlp) :
        /\ query' = q
        /\ doc' = d
        /\ Interpreted(q, parse_query_with_nlp(q, nlp, d))
    /\ UNCHANGED <<nlp, es_client, mongo_client, hits>>

Outcome(call, outcome, found) == [call EXCEPT !.outcome = outcome, !.found = found]

\* Lines 605-613, with the rescorer's result over the found hits.
Rescored(scored, found) ==
    IF scored.raised
    THEN MongoBranch(filters, query, <<Outcome(calls[1], "raised", found)>>)
    ELSE /\ response' = Success(scored.products)
         /\ calls' = <<Outcome(calls[1], "ok", found)>>
         /\ pc' = "done"
         /\ UNCHANGED mongo_query

\* The rich backend answers (lines 597-610): the hits are rescored and
\* returned; an exception of the rescorer is caught with the backend's own
\* (line 611) and the handler goes on to the simple backend.
EsReturn ==
    /\ pc = "es_wait"
    /\ \E store \in Stores : \E scores \in ScoreProfiles(store) :
        /\ hits' = EsSearch(store, scores, es_query)
        /\ Rescored(apply_nlp_scoring(hits', filters, query), EsTotal(store, es_query))
    /\ UNCHANGED <<nlp, es_client, mongo_client, query, doc, filters, es_query>>

\* The rich-backend call raises (lines 611-613).
EsFail ==
    /\ pc = "es_wait"
    /\ MongoBranch(filters, query, <<Outcome(calls[1], "failed", 0)>>)
    /\ UNCHANGED <<nlp, es_client, mongo_client, query, doc, filters, es_query, hits>>

\* A handler that answers with whatever the aggregation left, error or not.
AggregatedUnchecked(result, found) ==
    /\ response' = Success(result.products)
    /\ calls' = [calls EXCEPT ![Len(calls)] =
                    Outcome(@, IF result.error # "" THEN result.error ELSE "ok", found)]

\* Lines 700-708 and 712-716, with the result of the aggregation.
Aggregated(result, found) ==
    IF result.error # ""
    THEN /\ response' = Failure
         /\ calls' = [calls EXCEPT ![Len(calls)] = Outcome(@, result.error, found)]
    ELSE /\ response' = Success(result.products)
         /\ calls' = [calls EXCEPT ![Len(calls)] = Outcome(@, "ok", found)]

\* The simple backend answers (lines 700-708); an error of the aggregation is
\* answered with status 500 (lines 712-716).
MongoReturn ==
    /\ pc = "mongo_wait"
    /\ \E store \in Stores :
        /\ hits' = MongoMatched(store, mongo_query)
        /\ Aggregated(MongoAggregate(hits', mongo_query), Len(hits'))
    /\ pc' = "done"
    /\ UNCHANGED <<nlp, es_client, mongo_client, query, doc, filters, es_query,
                   mongo_query>>

\* The simple-backend call raises (lines 712-716).
MongoFail ==
    /\ pc = "mongo_wait"
    /\ response' = Failure
    /\ calls' = [calls EXCEPT ![Len(calls)] = Outcome(calls[Len(calls)], "failed", 0)]
    /\ pc' = "done"
    /\ UNCHANGED <<nlp, es_client, mongo_client, query, doc, filters, es_query,
                   mongo_query, hits>>

\* The response is sent; the locals of the request are gone.
Reply ==
    /\ pc = "done"
    /\ pc' = "idle"
    /\ query' = ""
    /\ doc' = NoDoc
    /\ filters' = EmptyFilters
    /\ es_query' = NoQuery
    /\ mongo_query' = NoQuery
    /\ calls' = <<>>
    /\ hits' = <<>>
    /\ response' = NoResponse
    /\ UNCHANGED <<nlp, es_client, mongo_client>>

\* shutdown_event: the clients are closed, no request is served any more.
Shutdown ==
    /\ pc = "idle"
    /\ pc' = "stopped"
    /\ UNCHANGED <<nlp, es_client, mongo_client, query, doc, filters, es_query,
                   mongo_query, calls, hits, response>>

Next ==
    \/ Startup
    \/ Search
    \/ EsReturn
    \/ EsFail
    \/ MongoReturn
    \/ MongoFail
    \/ Reply
    \/ Shutdown

Spec == Init /\ [][Next]_vars

(***************************************************************************)
(* The interpreter and the clause builders on their own: one query, one    *)
(* output of the annotator, interpreted, then both backend requests built. *)
(***************************************************************************)
\* The longest run of attribute words in a generated query.
MaxWords == 2

QueryWords == {"red", "nike", "sneakers", "running"}

\* The price part of a generated query.
PriceTails ==
    { <<>>, <<"under", "80">>, <<"over", "50">>, <<"under", "0", "over", "50">>,
      <<"$0", "over", "50">>, <<"under", "(5">> }

\* Queries of the examples: mixed case, several variants of one brand, of one
\* color and of one category, a range, a number word, two brands.
ExampleQueries ==
    { "Red Nike sneakers under 80", "nike air jordan shoes",
      "red crimson scarlet sneakers trainers shoes", "shoes between 50 and 100",
      "two shoes", "puma nike" }

WordLists == UNION {[1..k -> QueryWords] : k \in 0..MaxWords}

Queries ==
    {JoinWords(ws \o tail) : ws \in WordLists, tail \in PriceTails} \cup ExampleQueries

InitInterp ==
    /\ nlp \in BOOLEAN
    /\ es_client = "None"
    /\ mongo_client = "None"
    /\ pc = "query"
    /\ query \in Queries
    /\ doc \in DocsFor(query, nlp)
    /\ filters = EmptyFilters
    /\ es_query = NoQuery
    /\ mongo_query = NoQuery
    /\ calls = <<>>
    /\ hits = <<>>
    /\ response = NoResponse

\* Line 425 with the interpreter's result.
Parsed(parsed) ==
    IF parsed.raised
    THEN /\ pc' = "raised"
         /\ UNCHANGED filters
    ELSE /\ pc' = "parsed"
         /\ filters' = parsed.filters

\* filters = parse_query_with_nlp(request.query)
Interpret ==
    /\ pc = "query"
    /\ Parsed(parse_query_with_nlp(query, nlp, doc))
    /\ UNCHANGED <<nlp, es_client, mongo_client, query, doc, es_query, mongo_query,
                   calls, hits, response>>

\* Lines 428-588: the rich-backend request.
BuildEs ==
    /\ pc = "parsed"
    /\ es_query' = BuildEsQuery(filters, query)
    /\ pc' = "es_built"
    /\ UNCHANGED <<nlp, es_client, mongo_client, query, doc, filters, mongo_query,
                   calls, hits, response>>

\* Lines 620-679: the simple-backend $match.
BuildMongo ==
    /\ pc = "es_built"
    /\ mongo_query' = BuildMongoQuery(filters, query)
    /\ pc' = "built"
    /\ UNCHANGED <<nlp, es_client, mongo_client, query, doc, filters, es_query,
                   calls, hits, response>>

NextInterp ==
    \/ Interpret
    \/ BuildEs
    \/ BuildMongo

SpecInterp == InitInterp /\ [][NextInterp]_vars

(***************************************************************************)
(* The rescorer on its own: a Filter Set of a query and a list of hits.    *)
(***************************************************************************)
\* The longest list of hits.
MaxHits == 2

ScoreQueries == {"red nike sneakers under 80", "running shoes over 50", "red womens sandals"}

ScorePool == {NikeAirMax, AdidasRunner, FreeSandals}

\* Relevance scores of the rich backend.
ScoreValues == {0, ScoreUnit, 62 * ScoreUnit}

HitLists ==
    UNION {{List([i \in 1..k |-> [docs[i] EXCEPT !._id = i] @@ [_score |-> scores[i]]]) :
                docs \in [1..k -> ScorePool], scores \in [1..k -> ScoreValues]} :
           k \in 0..MaxHits}

InitScore ==
    /\ nlp \in BOOLEAN
    /\ es_client = "AsyncElasticsearch"
    /\ mongo_client = "None"
    /\ pc = "hits"
    /\ query \in ScoreQueries
    /\ doc \in DocsFor(query, nlp)
    /\ filters = parse_query_with_nlp(query, nlp, doc).filters
    /\ es_query = NoQuery
    /\ mongo_query = NoQuery
    /\ calls = <<>>
    /\ hits \in HitLists
    /\ response = NoResponse

\* Lines 605-610 with the rescorer's result.
Scored(scored) ==
    IF scored.raised
    THEN /\ pc' = "raised"
         /\ UNCHANGED response
    ELSE /\ pc' = "scored"
         /\ response' = Success(scored.products)

\* products = apply_nlp_scoring(products, filters, request.query)
Rescore ==
    /\ pc = "hits"
    /\ Scored(apply_nlp_scoring(hits, filters, query))
    /\ UNCHANGED <<nlp, es_client, mongo_client, query, doc, filters, es_query,
                   mongo_query, calls, hits>>

NextScore == Rescore

SpecScore == InitScore /\ [][NextScore]_vars

(***************************************************************************)
(* Concurrent requests.  The handler is a coroutine: between two awaits it *)
(* runs alone, and at an await (es_client.search, the aggregation cursor)  *)
(* other requests run.  Every local of the handler is a function of the    *)
(* request; the three handles are the module's globals.                    *)
(***************************************************************************)
\* The number of requests in flight at once.
MaxRequests == 2

Requests == 1..MaxRequests

ConcQueries == {"Nike", "womens sandals"}

\* The documents both backends hold.
ConcStore == Numbered(<<NikeAirMax, FreeSandals>>)

\* The service after startup_event with both backends connected.
InitConc ==
    /\ nlp \in BOOLEAN
    /\ es_client = "AsyncElasticsearch"
    /\ mongo_client = "AsyncIOMotorClient"
    /\ pc = [r \in Requests |-> "idle"]
    /\ query = [r \in Requests |-> ""]
    /\ doc = [r \in Requests |-> NoDoc]
    /\ filters = [r \in Requests |-> EmptyFilters]
    /\ es_query = [r \in Requests |-> NoQuery]
    /\ mongo_query = [r \in Requests |-> NoQuery]
    /\ calls = [r \in Requests |-> <<>>]
    /\ hits = [r \in Requests |-> <<>>]
    /\ response = [r \in Requests |-> NoResponse]

\* Lines 615-710 for request r with Filter Set f and query q: the simple
\* backend is called if it is configured, else the request fails.
FallBack(r, f, q, done) ==
    IF mongo_client # "None"
    THEN /\ mongo_query' = [mongo_query EXCEPT ![r] = BuildMongoQuery(f, q)]
         /\ calls' = [calls EXCEPT ![r] =
                        Append(done, [backend |-> "mongo", outcome |-> "pending", found |-> 0])]
         /\ pc' = [pc EXCEPT ![r] = "mongo_wait"]
         /\ response' = response
    ELSE /\ mongo_query' = mongo_query
         /\ calls' = [calls EXCEPT ![r] = done]
         /\ pc' = [pc EXCEPT ![r] = "done"]
         /\ response' = [response EXCEPT ![r] = Failure]

\* A request that drops the rich-backend handle when its call raises.
EsRaisesDropsClient(r) ==
    /\ pc[r] = "es_wait"
    /\ FallBack(r, filters[r], query[r], <<Outcome(calls[r][1], "failed", 0)>>)
    /\ es_client' = "None"
    /\ UNCHANGED <<nlp, mongo_client, query, doc, filters, es_query, hits>>

\* Request r up to its first await (lines 423-597): the handler reads the
\* global es_client and calls the rich backend if it is configured.
Begin(r) ==
    /\ pc[r] = "idle"
    /\ \E q \in ConcQueries : \E d \in DocsFor(q, nlp) :
        /\ query' = [query EXCEPT ![r] = q]
        /\ doc' = [doc EXCEPT ![r] = d]
        /\ filters' = [filters EXCEPT ![r] = parse_query_with_nlp(q, nlp, d).filters]
        /\ es_query' = [es_query EXCEPT ![r] = BuildEsQuery(filters'[r], q)]
        /\ IF es_client # "None"
           THEN /\ calls' = [calls EXCEPT ![r] =
                                <<[backend |-> "es", outcome |-> "pending", found |-> 0]>>]
                /\ pc' = [pc EXCEPT ![r] = "es_wait"]
                /\ UNCHANGED <<mongo_query, response>>
           ELSE FallBack(r, filters'[r], q, <<>>)
    /\ UNCHANGED <<nlp, es_client, mongo_client, hits>>

\* The rich backend answers request r (lines 597-610).
EsAnswers(r) ==
    /\ pc[r] = "es_wait"
    /\ hits' = [hits EXCEPT ![r] =
                    EsSearch(ConcStore, List([i \in 1..Len(ConcStore) |-> i * ScoreUnit]),
                             es_query[r])]
    /\ response' = [response EXCEPT ![r] =
                        Success(apply_nlp_scoring(hits'[r], filters[r], query[r]).products)]
    /\ calls' = [calls EXCEPT ![r] = <<Outcome(calls[r][1], "ok", Len(hits'[r]))>>]
    /\ pc' = [pc EXCEPT ![r] = "done"]
    /\ UNCHANGED <<nlp, es_client, mongo_client, query, doc, filters, es_query, mongo_query>>

\* The rich-backend call of request r raises (lines 611-613): the request
\* falls back, the handle stays.
EsRaises(r) ==
    /\ pc[r] = "es_wait"
    /\ FallBack(r, filters[r], query[r], <<Outcome(calls[r][1], "failed", 0)>>)
    /\ UNCHANGED <<nlp, es_client, mongo_client, query, doc, filters, es_query, hits>>

\* The simple backend answers request r (lines 700-708).
MongoAnswers(r) ==
    /\ pc[r] = "mongo_wait"
    /\ hits' = [hits EXCEPT ![r] = MongoMatched(ConcStore, mongo_query[r])]
    /\ response' = [response EXCEPT ![r] =
                        Success(MongoAggregate(hits'[r], mongo_query[r]).products)]
    /\ calls' = [calls EXCEPT ![r] = [@ EXCEPT ![Len(@)] = Outcome(@, "ok", Len(hits'[r]))]]
    /\ pc' = [pc EXCEPT ![r] = "done"]
    /\ UNCHANGED <<nlp, es_client, mongo_client, query, doc, filters, es_query, mongo_query>>

\* The simple-backend call of request r raises (lines 712-716).
MongoRaises(r) ==
    /\ pc[r] = "mongo_wait"
    /\ response' = [response EXCEPT ![r] = Failure]
    /\ calls' = [calls EXCEPT ![r] = [@ EXCEPT ![Len(@)] = Outcome(@, "failed", 0)]]
    /\ pc' = [pc EXCEPT ![r] = "done"]
    /\ UNCHANGED <<nlp, es_client, mongo_client, query, doc, filters, es_query,
                   mongo_query, hits>>

\* The response of request r is sent; its locals are gone.
Respond(r) ==
    /\ pc[r] = "done"
    /\ pc' = [pc EXCEPT ![r] = "idle"]
    /\ query' = [query EXCEPT ![r] = ""]
    /\ doc' = [doc EXCEPT ![r] = NoDoc]
    /\ filters' = [filters EXCEPT ![r] = EmptyFilters]
    /\ es_query' = [es_query EXCEPT ![r] = NoQuery]
    /\ mongo_query' = [mongo_query EXCEPT ![r] = NoQuery]
    /\ calls' = [calls EXCEPT ![r] = <<>>]
    /\ hits' = [hits EXCEPT ![r] = <<>>]
    /\ response' = [response EXCEPT ![r] = NoResponse]
    /\ UNCHANGED <<nlp, es_client, mongo_client>>

NextConc ==
    \E r \in Requests :
        \/ Begin(r)
        \/ EsAnswers(r)
        \/ EsRaises(r)
        \/ MongoAnswers(r)
        \/ MongoRaises(r)
        \/ Respond(r)

SpecConc == InitConc /\ [][NextConc]_vars

(***************************************************************************)
(* Claims.                                                                 *)
(***************************************************************************)
\* The interpreter has returned a Filter Set.
Returned == pc \in {"parsed", "es_built", "built"}

\* C1: for every query, on the annotated and on the degraded path, the Filter
\* Set the interpreter returns never has price_min and price_max both set,
\* also when an extracted bound is the number 0.
C1_PriceBoundsExclusive ==
    Returned => ~(filters.price_min # None /\ filters.price_max # None)

\* The rich-backend attempt of the request failed: its call raised, or the
\* rescoring of its hits did.
RichFailed ==
    /\ Len(calls) > 0
    /\ calls[1].backend = "es"
    /\ calls[1].outcome \in {"failed", "raised"}

\* The simple-backend call of the request failed: it raised, or the
\* aggregation ended in an error.
SimpleFailed ==
    /\ Len(calls) > 0
    /\ calls[Len(calls)].backend = "mongo"
    /\ calls[Len(calls)].outcome \in {"failed", "regex", "divide"}

\* C2: within one request the rich backend is attempted first when it is
\* configured, each backend is called at most once, the simple backend is
\* called only if the rich backend is not configured or its retrieval call
\* failed in that request, and no retrieval attempt follows the simple one.
C2_BackendSelection ==
    /\ (Len(calls) > 0 /\ es_client # "None") => calls[1].backend = "es"
    /\ \A i, j \in 1..Len(calls) : calls[i].backend = calls[j].backend => i = j
    /\ \A i \in 1..Len(calls) :
        calls[i].backend = "mongo" =>
            /\ i = Len(calls)
            /\ \/ es_client = "None"
               \/ i = 2 /\ calls[1].backend = "es" /\ calls[1].outcome = "failed"

\* C3: if no backend is configured, or the rich backend fails and the simple
\* backend is unconfigured or fails too, the request ends with status 500 and
\* no candidate list; a response is a failure without a list or the whole
\* result of one backend; a rich-backend failure does not show when the
\* simple backend succeeds.
C3_FailureIsTotal ==
    pc = "done" =>
        /\ response.status \in {200, 500}
        /\ (es_client = "None" /\ mongo_client = "None") =>
                response.status = 500 /\ response.products = None
        /\ (RichFailed /\ (mongo_client = "None" \/ SimpleFailed)) =>
                response.status = 500 /\ response.products = None
        /\ response.status = 500 => response.products = None
        /\ response.status = 200 =>
                /\ response.products # None
                /\ calls[Len(calls)].outcome = "ok"
        /\ (RichFailed /\ calls[Len(calls)].backend = "mongo"
                /\ calls[Len(calls)].outcome = "ok") =>
                /\ response.status = 200
                /\ response.products # None
                /\ \A i \in 1..Len(response.products[1]) :
                        "score" \in DOMAIN response.products[1][i]

\* Both backends failed in one request, which ended with status 500.
C3_BothFailed ==
    /\ pc = "done"
    /\ RichFailed
    /\ SimpleFailed
    /\ response.status = 500

TermsOn(field) ==
    LET OnField(c) == c.type = "term" /\ c.field = field
    IN  SelectSeq(es_query.should, OnField)

\* The clauses on `field` are one per entry of `confidence`, each with boost
\* confidence * weight when that is at most `clamp`, and `clamp` otherwise.
BoostsClamped(field, confidence, weight, clamp) ==
    /\ Len(TermsOn(field)) = Len(confidence)
    /\ \A i \in 1..Len(confidence) :
        /\ TermsOn(field)[i].value = confidence[i][1]
        /\ TermsOn(field)[i].boost <= clamp
        /\ TermsOn(field)[i].boost =
            IF confidence[i][2] * weight <= clamp THEN confidence[i][2] * weight ELSE clamp

\* C5: for every confidence value of a confidence map the boost of the emitted
\* exact-match clause is min(confidence * weight, clamp): at most 5.0 for brand
\* (weight 2.0), 4.0 for color (weight 1.8), 3.0 for category (weight 1.5).
C5_BoostClamped ==
    (pc \in {"es_built", "built"} /\ filters.semantic_analysis # None) =>
        /\ BoostsClamped("brand.keyword", filters.semantic_analysis[1].brand_confidence, 20, 500)
        /\ BoostsClamped("color.keyword", filters.semantic_analysis[1].color_confidence, 18, 400)
        /\ BoostsClamped("category.keyword",
                         filters.semantic_analysis[1].category_confidence, 15, 300)

\* A brand confidence above 2.5 was clamped to the boost 5.0.
C5_BrandClampReached ==
    /\ pc \in {"es_built", "built"}
    /\ filters.semantic_analysis # None
    /\ \E i \in 1..Len(filters.semantic_analysis[1].brand_confidence) :
        /\ filters.semantic_analysis[1].brand_confidence[i][2] * 20 > 500
        /\ TermsOn("brand.keyword")[i].boost = 500

\* The rescorer was handed the two candidates Nike Air Max and Adidas Runner,
\* in either order, for the query "red nike sneakers under 80", and returned.
NikeAdidasRescored ==
    /\ pc = "scored"
    /\ query = "red nike sneakers under 80"
    /\ Len(hits) = 2
    /\ {hits[1].title, hits[2].title} = {NikeAirMax.title, AdidasRunner.title}

\* The backend relevance score of the candidate with that title.
BackendScore(title) == hits[CHOOSE i \in 1..Len(hits) : hits[i].title = title]._score

\* The Nike candidate is first in the rescored list.
NikeFirst == response.products[1][1].doc.title = NikeAirMax.title

\* C6 as stated: for the query "red nike sneakers under 80" and the two
\* candidates Nike Air Max and Adidas Runner, apply_nlp_scoring ranks the Nike
\* candidate first for every pair of backend relevance scores.
C6_NikeFirstForAllScores == NikeAdidasRescored => NikeFirst

\* C6, amended: with the confidence maps of the annotated path the Nike
\* candidate is first whenever 0.12 * score(Adidas) < score(Nike) + 7.4 (the
\* penalties 0.3 and 0.4 against the least bonus 3.0 * 1.8 + 2.0 * 1.0); on
\* the degraded path the scores are not adjusted, and the Nike candidate is
\* first whenever its backend score is the higher one.
C6_NikeFirstWithinMargin ==
    NikeAdidasRescored =>
        /\ (nlp /\ 12 * BackendScore(AdidasRunner.title)
                    < 100 * BackendScore(NikeAirMax.title) + 740 * ScoreUnit) => NikeFirst
        /\ (~nlp /\ BackendScore(AdidasRunner.title) < BackendScore(NikeAirMax.title))
                => NikeFirst

\* The Adidas candidate came first from the backend with the higher score,
\* and the Nike candidate is first after rescoring.
C6_NikeOvertakes ==
    /\ NikeAdidasRescored
    /\ nlp
    /\ hits[1].title = AdidasRunner.title
    /\ hits[1]._score > hits[2]._score
    /\ NikeFirst

\* The built query has at most one term clause on `field`: none when the
\* attribute is unresolved, and one with the attribute's value and boost 2.0
\* when it is resolved.
SingleExact(field, attribute) ==
    /\ Len(TermsOn(field)) <= 1
    /\ Len(TermsOn(field)) = 1 <=> attribute # None
    /\ \A i \in 1..Len(TermsOn(field)) :
        /\ TermsOn(field)[i].value = attribute[1]
        /\ TermsOn(field)[i].boost = 200

\* C7: when the annotator is unavailable every Filter Set produced has no
\* confidence maps and no noun phrases, and the rich-backend clause builder
\* takes the single-exact-clause branch for it: no phrase clause, and at most
\* one exact-match clause per resolved attribute (brand, color, category),
\* each with the fixed boost 2.0.
C7_DegradedSingleExact ==
    (~nlp /\ Returned) =>
        /\ filters.semantic_analysis = None
        /\ pc \in {"es_built", "built"} =>
            /\ \A i \in 1..Len(es_query.should) : es_query.should[i].type # "match_phrase"
            /\ SingleExact("brand.keyword", filters.brand)
            /\ SingleExact("color.keyword", filters.color)
            /\ SingleExact("category.keyword", filters.category)

\* A degraded-mode query that resolved brand, color and category was built
\* into a rich-backend query.
C7_DegradedAllResolved ==
    /\ ~nlp
    /\ pc \in {"es_built", "built"}
    /\ filters.brand # None
    /\ filters.color # None
    /\ filters.category # None
    /\ Len(TermsOn("brand.keyword")) = 1

\* C8: text of an extracted MONEY or CARDINAL entity that is malformed, also
\* with regular-expression metacharacters in it, never makes the request fail:
\* interpretation returns a Filter Set, so the handler goes on to a backend
\* whenever one is configured, and the caller gets no error from it.
C8_EntityTextNeverFails ==
    (/\ pc = "done"
     /\ \E e \in 1..Len(doc.ents) : doc.ents[e].label \in {"MONEY", "CARDINAL"}
     /\ es_client # "None" \/ mongo_client # "None")
        => Len(calls) > 0

\* C9: after apply_nlp_scoring the returned list is a permutation of the
\* input candidates (none dropped, none added), ordered by adjusted score
\* descending, and two candidates with equal adjusted score keep their
\* original retrieval order.
C9_StableDescendingPermutation ==
    pc = "scored" =>
        LET ranked == response.products[1]
        IN  /\ Len(ranked) = Len(hits)
            /\ {ranked[k]._pos : k \in 1..Len(ranked)} = 1..Len(hits)
            /\ \A k \in 1..Len(ranked) : ranked[k].doc = hits[ranked[k]._pos]
            /\ \A k, l \in 1..Len(ranked) :
                k < l =>
                    /\ ranked[k]._nlp_score >= ranked[l]._nlp_score
                    /\ ranked[k]._nlp_score = ranked[l]._nlp_score
                            => ranked[k]._pos < ranked[l]._pos

\* Two different candidates got the same adjusted score from different
\* backend scores.
C9_TieRescored ==
    /\ pc = "scored"
    /\ Len(hits) = 2
    /\ hits[1].title # hits[2].title
    /\ hits[1]._score # hits[2]._score
    /\ response.products[1][1]._nlp_score = response.products[1][2]._nlp_score

\* The confidence map of an attribute in the Filter Set handed to the
\* rescorer; empty when there is no semantic analysis.
ConfidenceMap(attribute) ==
    IF filters.semantic_analysis = None THEN <<>>
    ELSE IF attribute = "brand" THEN filters.semantic_analysis[1].brand_confidence
    ELSE IF attribute = "color" THEN filters.semantic_analysis[1].color_confidence
    ELSE filters.semantic_analysis[1].category_confidence

\* The confidence of `target` in a map, 1.0 when it is no key of it.
ConfidenceOf(map, target) ==
    IF \E i \in 1..Len(map) : map[i][1] = target
    THEN map[CHOOSE i \in 1..Len(map) : map[i][1] = target][2]
    ELSE 10

\* Running score after the brand step: + confidence * 3.0 or * 0.3.
AfterBrand(p) ==
    IF filters.brand # None /\ Len(ConfidenceMap("brand")) > 0
    THEN IF Lower(p.brand[1]) = Lower(filters.brand[1])
         THEN p._score + ConfidenceOf(ConfidenceMap("brand"), Lower(filters.brand[1]))
                            * 3 * (ScoreUnit \div 10)
         ELSE (p._score * 3) \div 10
    ELSE p._score

\* Running score after the color step: + confidence * 2.0 or * 0.4.
AfterColor(p) ==
    IF filters.color # None /\ Len(ConfidenceMap("color")) > 0
    THEN IF Lower(p.color[1]) = Lower(filters.color[1])
         THEN AfterBrand(p) + ConfidenceOf(ConfidenceMap("color"), Lower(filters.color[1]))
                                * 2 * (ScoreUnit \div 10)
         ELSE (AfterBrand(p) * 4) \div 10
    ELSE AfterBrand(p)

\* Running score after the category step: + confidence * 1.5, or + 0.5 for a
\* shoe category when the query contains "shoes", or * 0.7.
AfterCategory(p) ==
    IF filters.category # None /\ Len(ConfidenceMap("category")) > 0
    THEN IF Lower(p.category[1]) = Lower(filters.category[1])
         THEN AfterColor(p)
              + (ConfidenceOf(ConfidenceMap("category"), Lower(filters.category[1]))
                 * 15 * (ScoreUnit \div 10)) \div 10
         ELSE IF /\ Contains("shoes", Lower(query))
                 /\ Lower(p.category[1]) \in {"sneakers", "flats", "boots", "sandals", "heels"}
         THEN AfterColor(p) + ScoreUnit \div 2
         ELSE (AfterColor(p) * 7) \div 10
    ELSE AfterColor(p)

\* Running score after the gender step: + 1.0 or * 0.6.
AfterGender(p) ==
    IF filters.gender # None
    THEN IF \/ Lower(filters.gender[1]) = "women"
               /\ Lower(p.gender[1]) \in {"women", "girls", "female"}
            \/ Lower(filters.gender[1]) = "men"
               /\ Lower(p.gender[1]) \in {"men", "boys", "male"}
            \/ Lower(filters.gender[1]) = Lower(p.gender[1])
         THEN AfterCategory(p) + ScoreUnit
         ELSE (AfterCategory(p) * 6) \div 10
    ELSE AfterCategory(p)

\* The noun phrases of the Filter Set, by position.
PhrasesInTitle(p) ==
    IF filters.semantic_analysis = None THEN {}
    ELSE {k \in 1..Len(filters.semantic_analysis[1].noun_phrases) :
            Contains(filters.semantic_analysis[1].noun_phrases[k], Lower(p.title[1]))}

\* C11: for every candidate the rescorer returns, the adjusted score is the
\* backend relevance score taken through the brand, color, category and
\* gender steps in this order, each on the running score of the one before,
\* then + 0.8 for every noun phrase contained in the title; the brand, color
\* and category steps apply only when the attribute is set and its confidence
\* map exists, the gender step only when gender is set.
C11_AdjustedScoreSteps ==
    pc = "scored" =>
        \A k \in 1..Len(response.products[1]) :
            /\ response.products[1][k]._original_score = response.products[1][k].doc._score
            /\ response.products[1][k]._nlp_score =
                AfterGender(response.products[1][k].doc)
                + Cardinality(PhrasesInTitle(response.products[1][k].doc))
                  * 8 * (ScoreUnit \div 10)

\* A candidate with a positive backend score took the bonus of the color step
\* and then the penalties of the category and gender steps.
C11_BonusThenPenalty ==
    /\ pc = "scored"
    /\ \E k \in 1..Len(response.products[1]) :
        /\ response.products[1][k].doc._score > 0
        /\ AfterColor(response.products[1][k].doc) > AfterBrand(response.products[1][k].doc)
        /\ AfterCategory(response.products[1][k].doc) < AfterColor(response.products[1][k].doc)
        /\ AfterGender(response.products[1][k].doc) < AfterCategory(response.products[1][k].doc)

\* The members of the simple-backend conjunction, read back from the
\* normalised query.
Conjuncts ==
    IF mongo_query.op = "all" THEN <<>>
    ELSE IF mongo_query.op = "and" THEN mongo_query.members
    ELSE <<mongo_query>>

\* Both built queries carry the inclusive bound `op` value on price.
HardPriceFilter(op, value) ==
    /\ \E i \in 1..Len(es_query.filter) :
        /\ es_query.filter[i].type = "range"
        /\ es_query.filter[i].field = "price"
        /\ es_query.filter[i].op = op
        /\ es_query.filter[i].value = value
    /\ \E i \in 1..Len(Conjuncts) :
        /\ Conjuncts[i].op = op
        /\ Conjuncts[i].field = "price"
        /\ Conjuncts[i].value = value

\* C12: whenever the Filter Set has price_max set, the rich-backend request
\* contains the hard filter price <= price_max and the simple-backend
\* conjunction the predicate price <= price_max, and likewise price >=
\* price_min whenever price_min is set, for every bound value, 0 included.
C12_PriceBoundsFiltered ==
    pc = "built" =>
        /\ filters.price_max # None => HardPriceFilter("lte", filters.price_max[1])
        /\ filters.price_min # None => HardPriceFilter("gte", filters.price_min[1])

\* The fuzzy multi-field clauses of the built rich-backend request over the
\* fields of the full-text clause (title^3, description^2, ...).
FullTextClauses ==
    LET FullText(c) == c.type = "multi_match" /\ c.field = QueryClause(query).field
    IN  SelectSeq(es_query.should, FullText)

\* Its fuzzy multi-field clauses over the fields of a per-keyword clause.
PerKeywordClauses ==
    LET PerKeyword(c) == c.type = "multi_match" /\ c.field # QueryClause(query).field
    IN  SelectSeq(es_query.should, PerKeyword)

\* C13: the rich-backend request always contains exactly one fuzzy
\* multi-field clause over the full query text, and per-keyword fuzzy clauses
\* only on the annotated path: for a Filter Set of the degraded algorithm no
\* per-keyword clause is emitted.
C13_KeywordClausesAnnotatedOnly ==
    pc \in {"es_built", "built"} =>
        /\ Len(FullTextClauses) = 1
        /\ FullTextClauses[1].value = query
        /\ ~nlp => Len(PerKeywordClauses) = 0

\* A keyword of the Filter Set longer than 2 characters is a case-insensitive
\* substring of one of the candidate's text fields.
KeywordHit(d) ==
    \E k \in 1..Len(filters.keywords) :
        /\ Len(filters.keywords[k]) > 2
        /\ \E field \in {"title", "description", "category", "brand", "color", "tags"} :
            /\ FieldValue(d, field) # None
            /\ Contains(Lower(filters.keywords[k]), Lower(FieldValue(d, field)[1]))

\* The candidate satisfies the attribute and price members of the conjunction.
OtherMembersHold(d) ==
    \A i \in 1..Len(Conjuncts) :
        Conjuncts[i].op \in {"regex", "lte", "gte"} => MongoMatches(d, Conjuncts[i])

\* C14: in the simple-backend query the member added for the keywords is a
\* disjunction over the keywords longer than 2 characters: a candidate that
\* satisfies the other members satisfies the query as soon as one such
\* keyword is a case-insensitive substring of one of title, description,
\* category, brand, color or tags; and the empty conjunction matches every
\* candidate.
C14_KeywordDisjunction ==
    pc = "built" =>
        \A d \in {NikeAirMax, AdidasRunner, FreeSandals} :
            /\ (Len(filters.keywords) > 0 /\ KeywordHit(d) /\ OtherMembersHold(d))
                    => MongoMatches(d, mongo_query)
            /\ Len(Conjuncts) = 0 => MongoMatches(d, mongo_query)

\* The text of the MONEY entity the interpreter recorded, "" when none.
MoneyText == MapGet(EntitiesFound(doc.ents, 1, <<>>), "MONEY", "")

\* The bounds after the entity steps (MONEY, else CARDINAL) of the request.
EntityStep == EntityPrice(EntitiesFound(doc.ents, 1, <<>>), Lower(query))

\* C15: on the annotated path price extraction stops at the first step that
\* succeeds: with a MONEY entity that contains an integer, price_max is the
\* first integer of its text, price_min stays unset and the plain pattern
\* lists change neither bound; the same holds once the CARDINAL step has set
\* a bound; and when the plain step runs, a match of its under-list prevents
\* price_min from being set.
C15_FirstSuccessStops ==
    (nlp /\ pc = "parsed") =>
        /\ (MoneyText # "" /\ ReSearch(<< <<"num">> >>, MoneyText).hit) =>
                /\ filters.price_max
                        = Some(DigitsValue(ReSearch(<< <<"num">> >>, MoneyText).group, 0))
                /\ filters.price_min = None
        /\ (EntityStep.price_max # None \/ EntityStep.price_min # None) =>
                /\ filters.price_max = EntityStep.price_max
                /\ filters.price_min = EntityStep.price_min
        /\ (/\ EntityStep.price_max = None
            /\ EntityStep.price_min = None
            /\ FirstMatch(nlp_under_patterns(<<"num">>), Lower(query)) > 0) =>
                filters.price_min = None

\* The place of a canonical value in a dictionary's declared order.
DeclaredAt(entities, value) == CHOOSE e \in 1..Len(entities) : entities[e][1] = value

\* The attribute is set exactly when its confidence map is non-empty; it is
\* then a key of the map with the maximum accumulated score, and comes before
\* every other key of that score in the dictionary's declared order.
WinnerOf(attribute, map, entities) ==
    /\ attribute # None <=> Len(map) > 0
    /\ attribute # None =>
        /\ \E i \in 1..Len(map) : map[i][1] = attribute[1]
        /\ \A i, j \in 1..Len(map) :
            map[i][1] = attribute[1] =>
                /\ map[j][2] <= map[i][2]
                /\ (j # i /\ map[j][2] = map[i][2]) =>
                    DeclaredAt(entities, map[i][1]) < DeclaredAt(entities, map[j][1])

\* C16: on the annotated path each of brand, color and category is set
\* exactly when its confidence map is non-empty, and then equals the canonical
\* value with the maximum accumulated score, a tie going to the value that
\* comes first in the dictionary's declared order; the chosen value is a key
\* of the confidence map the rescorer reads back.
C16_WinnerIsFirstMaximum ==
    (nlp /\ Returned) =>
        /\ WinnerOf(filters.brand, ConfidenceMap("brand"), brand_entities)
        /\ WinnerOf(filters.color, ConfidenceMap("color"), color_entities)
        /\ WinnerOf(filters.category, ConfidenceMap("category"), category_entities)

\* Two canonical values of one attribute tied for the maximum score.
C16_TieDecided ==
    /\ nlp
    /\ Returned
    /\ \E a \in {"brand", "color", "category"} :
        \E i, j \in 1..Len(ConfidenceMap(a)) :
            /\ i # j
            /\ ConfidenceMap(a)[i][2] = ConfidenceMap(a)[j][2]
            /\ \A k \in 1..Len(ConfidenceMap(a)) : ConfidenceMap(a)[k][2] <= ConfidenceMap(a)[i][2]

\* The locals of request r.
Locals(r) ==
    <<pc[r], query[r], doc[r], filters[r], es_query[r], mongo_query[r], calls[r], hits[r],
      response[r]>>

\* What the handler returns for request r from the request's own query, the
\* annotator's output for it and the documents the backend handed to it.
OwnResult(r) ==
    IF calls[r][Len(calls[r])].backend = "es"
    THEN apply_nlp_scoring(hits[r], parse_query_with_nlp(query[r], nlp, doc[r]).filters,
                           query[r]).products
    ELSE MongoAggregate(hits[r],
                        BuildMongoQuery(parse_query_with_nlp(query[r], nlp, doc[r]).filters,
                                        query[r])).products

\* No step changes a handle; a request that starts while the rich backend is
\* configured calls it first; a step of one request leaves the locals of
\* every other request alone.
IsolatedStep ==
    /\ UNCHANGED <<nlp, es_client, mongo_client>>
    /\ \A r \in Requests :
        /\ (pc[r] = "idle" /\ pc'[r] # "idle" /\ es_client # "None") =>
                /\ pc'[r] = "es_wait"
                /\ calls'[r] = <<[backend |-> "es", outcome |-> "pending", found |-> 0]>>
        /\ Locals(r)' # Locals(r) => \A s \in Requests \ {r} : Locals(s)' = Locals(s)

\* Every answered request carries the result computed from its own locals.
OwnResults ==
    \A r \in Requests :
        (pc[r] = "done" /\ response[r].status = 200) =>
            response[r].products = Some(OwnResult(r))

\* C17: requests are isolated.  No step of a request, a failed rich-backend
\* call and its fallback included, changes the backend client handles or the
\* annotator handle; a request that starts while the rich backend is
\* configured attempts it first, whatever other requests are in flight or
\* have failed; a step of one request leaves the locals of every other
\* request alone; and the candidates and scores a request returns are those
\* computed from its own query and its own backend's answer.
C17_RequestsIsolated == []OwnResults /\ [][IsolatedStep]_vars

\* One request fell back after its rich-backend call failed and was answered
\* by the simple backend, while another request, with another query, was
\* answered by the rich backend.
C17_FallbackBesideRich ==
    \E r, s \in Requests :
        /\ r # s
        /\ pc[r] = "done" /\ pc[s] = "done"
        /\ query[r] # query[s]
        /\ Len(calls[r]) = 2
        /\ calls[r][1].outcome = "failed"
        /\ calls[r][2].outcome = "ok"
        /\ response[r].status = 200
        /\ calls[s] = <<[backend |-> "es", outcome |-> "ok", found |-> Len(hits[s])]>>
        /\ response[s].status = 200

\* C10: the divisor price + 1 of the simple backend's composite score is
\* non-zero for every candidate with price >= 0, price 0 included: an
\* aggregation over such documents never ends in a division by zero, and
\* every candidate of its result carries a score with a non-zero divisor.
C10_DivisorNonZero ==
    (/\ pc = "done"
     /\ Len(calls) > 0
     /\ calls[Len(calls)].backend = "mongo"
     /\ \A i \in 1..Len(hits) : hits[i].price >= 0)
        => /\ calls[Len(calls)].outcome # "divide"
           /\ response.status = 200 =>
                \A i \in 1..Len(response.products[1]) :
                    response.products[1][i].score.den # 0

\* The simple backend scored a document with price 0.
C10_PriceZeroScored ==
    /\ pc = "done"
    /\ response.status = 200
    /\ calls[Len(calls)].backend = "mongo"
    /\ \E i \in 1..Len(response.products[1]) :
        /\ response.products[1][i].price = 0
        /\ response.products[1][i].score.den = 10

====
